---- MODULE Spec2Model ----
(***************************************************************************)
(* Model of agent/config/config.go: the reflection-driven merge, trim and  *)
(* required-field check over Config, the four providers, and NewConfig.    *)
(*                                                                         *)
(* A Go string, a []byte and a []uint16 are sequences (of tokens, of       *)
(* tokens, of numbers); "" and a nil slice are <<>>.  The token " " is a   *)
(* whitespace character, every other token stands for a run of             *)
(* non-whitespace characters.                                              *)
(***************************************************************************)
EXTENDS Integers, Sequences, FiniteSets, TLC

\* ------------------------------------------------------------ constants
DOCKER_RESERVED_PORT == 2375
DOCKER_RESERVED_SSL_PORT == 2376
SSH_PORT == 22
AGENT_INTROSPECTION_PORT == 51678
\* strconv.ParseUint(reservedMemoryEnv, 10, 16)
ReservedMemoryBits == 16

\* Longest run of whitespace put before and after an input string.
MaxPad == 1

\* ------------------------------------------------------------ the schema
\* The fields of Config, in the order reflection walks them.
Fields ==
  << "ClusterArn", "Cluster", "APIEndpoint", "DockerEndpoint", "AWSRegion",
     "ReservedPorts", "ReservedPortsUDP", "DataDir", "Checkpoint",
     "EngineAuthType", "EngineAuthData", "UpdatesEnabled",
     "UpdateDownloadDir", "DisableMetrics", "DockerGraphPath",
     "ReservedMemory", "EngineLogDriver", "EngineLogOpts" >>

NumField == Len(Fields)

FieldSet == { Fields[i] : i \in 1..NumField }

\* reflect.Kind of a field, from the values config.go assigns to it.
Kind(f) ==
  CASE f \in {"ReservedPorts", "ReservedPortsUDP", "EngineAuthData"} -> "slice"
    [] f \in {"Checkpoint", "UpdatesEnabled", "DisableMetrics"} -> "bool"
    [] f = "ReservedMemory" -> "uint16"
    [] OTHER -> "string"

\* The zero value of a kind: "", false, 0, a nil slice.
Zero(kind) ==
  CASE kind = "bool" -> FALSE
    [] kind = "uint16" -> 0
    [] OTHER -> <<>>

\* utils.ZeroOrNil: the zero value of the type, or a slice of length 0.
ZeroOrNil(kind, v) ==
  CASE kind = "bool" -> v = FALSE
    [] kind = "uint16" -> v = 0
    [] kind = "slice" -> Len(v) = 0
    [] OTHER -> v = <<>>

\* Config{}
EmptyConfig == [f \in FieldSet |-> Zero(Kind(f))]

\* ------------------------------------------------------------ strings
Whitespace == {" "}

RECURSIVE TrimLeft(_)
TrimLeft(s) ==
  IF s # <<>> /\ Head(s) \in Whitespace THEN TrimLeft(Tail(s)) ELSE s

RECURSIVE TrimRight(_)
TrimRight(s) ==
  IF s # <<>> /\ s[Len(s)] \in Whitespace
    THEN TrimRight(SubSeq(s, 1, Len(s) - 1))
    ELSE s

\* strings.TrimSpace
TrimSpace(s) == TrimRight(TrimLeft(s))

\* strings.Join(names, sep), each name and each separator one token
RECURSIVE Join(_, _)
Join(names, sep) ==
  IF names = <<>> THEN <<>>
  ELSE IF Len(names) = 1 THEN <<names[1]>>
  ELSE <<names[1], sep>> \o Join(Tail(names), sep)

\* ------------------------------------------------------------ Merge, Complete
\* The loop of Merge from field index i on.  The result holds the receiver and
\* the by-value parameter as they stand when the loop ends.
RECURSIVE MergeLoop(_, _, _)
MergeLoop(left, right, i) ==
  IF i > NumField THEN [lhs |-> left, rhs |-> right]
  ELSE LET f == Fields[i] IN
       IF ZeroOrNil(Kind(f), left[f])
         THEN MergeLoop([left EXCEPT ![f] = right[f]], right, i + 1)
         ELSE MergeLoop(left, right, i + 1)

\* Merge with the test on the wrong side: the right value wins when it is set.
MergeRightBiased(lhs, rhs) ==
  [lhs |-> [f \in FieldSet |->
              IF ZeroOrNil(Kind(f), rhs[f]) THEN lhs[f] ELSE rhs[f]],
   rhs |-> rhs]

Merge(lhs, rhs) == MergeLoop(lhs, rhs, 1)

RECURSIVE CompleteLoop(_, _)
CompleteLoop(cfg, i) ==
  IF i > NumField THEN TRUE
  ELSE IF ZeroOrNil(Kind(Fields[i]), cfg[Fields[i]]) THEN FALSE
  ELSE CompleteLoop(cfg, i + 1)

Complete(cfg) == CompleteLoop(cfg, 1)

\* ------------------------------------------------------------ struct tags
\* A schema's tags: for every field the value of its missing, trim and
\* deprecated tag ("" when the field does not carry the tag).
NoTags == [missing |-> "", trim |-> "", deprecated |-> ""]

\* cfgStructField.Field(i).Tag.Get(key)
TagGet(tg, f, key) == tg[f][key]

\* ------------------------------------------------------------ logging
LogEntry(level, msg, key) == [level |-> level, msg |-> msg, key |-> key]

\* ------------------------------------------------------------ TrimWhitespace
\* The loop of TrimWhitespace from field index i on; every field of Config is
\* exported, so CanInterface() holds for each.
RECURSIVE TrimWhitespaceLoop(_, _, _, _)
TrimWhitespaceLoop(cfg, tg, i, out) ==
  IF i > NumField THEN [cfg |-> cfg, log |-> out]
  ELSE LET f == Fields[i] IN
       IF TagGet(tg, f, "trim") = ""
         THEN TrimWhitespaceLoop(cfg, tg, i + 1, out)
       ELSE IF Kind(f) # "string"
         THEN TrimWhitespaceLoop(cfg, tg, i + 1,
                Append(out, LogEntry("warn", "Cannot trim non-string field", f)))
       ELSE TrimWhitespaceLoop([cfg EXCEPT ![f] = TrimSpace(cfg[f])],
                               tg, i + 1, out)

\* TrimWhitespace stripping the leading whitespace only.
TrimWhitespaceLeadingOnly(cfg, tg) ==
  [cfg |-> [f \in FieldSet |->
              IF TagGet(tg, f, "trim") # "" /\ Kind(f) = "string"
                THEN TrimLeft(cfg[f]) ELSE cfg[f]],
   log |-> TrimWhitespaceLoop(cfg, tg, 1, <<>>).log]

TrimWhitespace(cfg, tg) == TrimWhitespaceLoop(cfg, tg, 1, <<>>)

\* ------------------------------------------------------------ CheckMissingAndDepreciated
NilErr == <<>>

\* errors.New("Missing required fields: " + strings.Join(fatalFields, ", "))
MissingRequiredFields(fatalFields) ==
  <<"Missing required fields: ">> \o Join(fatalFields, ", ")

\* The loop of CheckMissingAndDepreciated from field index i on.
RECURSIVE CheckLoop(_, _, _, _, _)
CheckLoop(cfg, tg, i, fatalFields, out) ==
  IF i > NumField THEN [fatalFields |-> fatalFields, log |-> out]
  ELSE LET f == Fields[i]
           missingTag == TagGet(tg, f, "missing")
           deprecatedTag == TagGet(tg, f, "deprecated")
       IN
       IF ZeroOrNil(Kind(f), cfg[f])
         THEN IF missingTag = ""
                THEN CheckLoop(cfg, tg, i + 1, fatalFields, out)
              ELSE IF missingTag = "warn"
                THEN CheckLoop(cfg, tg, i + 1, fatalFields,
                       Append(out, LogEntry("warn", "Configuration key not set", f)))
              ELSE IF missingTag = "fatal"
                THEN CheckLoop(cfg, tg, i + 1, Append(fatalFields, f),
                       Append(out, LogEntry("crit", "Configuration key not set", f)))
              ELSE CheckLoop(cfg, tg, i + 1, fatalFields,
                       Append(out, LogEntry("warn", "Unexpected missing tag value", f)))
         ELSE IF deprecatedTag = ""
                THEN CheckLoop(cfg, tg, i + 1, fatalFields, out)
                ELSE CheckLoop(cfg, tg, i + 1, fatalFields,
                       Append(out, LogEntry("warn", "Use of deprecated configuration key", f)))

\* CheckMissingAndDepreciated reporting the first missing field only.
CheckFirstFatalOnly(cfg, tg) ==
  LET r == CheckLoop(cfg, tg, 1, <<>>, <<>>) IN
  [err |-> IF Len(r.fatalFields) > 0
             THEN MissingRequiredFields(<<r.fatalFields[1]>>)
             ELSE NilErr,
   log |-> r.log]

CheckMissingAndDepreciated(cfg, tg) ==
  LET r == CheckLoop(cfg, tg, 1, <<>>, <<>>) IN
  [err |-> IF Len(r.fatalFields) > 0
             THEN MissingRequiredFields(r.fatalFields)
             ELSE NilErr,
   log |-> r.log]

\* ------------------------------------------------------------ providers
\* A Config composite literal: the fields it does not name are zero.
ConfigLit(r) == r @@ EmptyConfig

DefaultConfig ==
  ConfigLit([DockerEndpoint |-> <<"unix:///var/run/docker.sock">>,
             ReservedPorts |-> <<SSH_PORT, DOCKER_RESERVED_PORT,
                                 DOCKER_RESERVED_SSL_PORT,
                                 AGENT_INTROSPECTION_PORT>>,
             ReservedPortsUDP |-> <<>>,
             DataDir |-> <<"/data/">>,
             DisableMetrics |-> FALSE,
             DockerGraphPath |-> <<"/var/lib/docker">>,
             ReservedMemory |-> 0])

\* utils.ParseBool: the boolean the text spells, else the default.
ParseBool(str, default) ==
  CASE str = <<"true">> -> TRUE
    [] str = <<"false">> -> FALSE
    [] OTHER -> default

\* The JSON texts of the environment that decode to a []uint16.
PortArrayTexts == (<<"[22,2375]">> :> <<22, 2375>>) @@ (<<"[53]">> :> <<53>>)

\* json.NewDecoder(strings.NewReader(text)).Decode(&ports), ports nil before:
\* io.EOF on a blank text, any other error on a text that is no array.
DecodePorts(text) ==
  IF TrimSpace(text) = <<>> THEN [ports |-> <<>>, err |-> "EOF"]
  ELSE IF text \in DOMAIN PortArrayTexts
    THEN [ports |-> PortArrayTexts[text], err |-> "nil"]
  ELSE [ports |-> <<>>, err |-> "invalid"]

\* The decimal numerals of the environment.
Numerals == (<<"5">> :> 5) @@ (<<"65535">> :> 65535) @@ (<<"70000">> :> 70000)

\* strconv.ParseUint(text, 10, 16)
ParseUint(text) ==
  IF text \in DOMAIN Numerals /\ Numerals[text] < 2 ^ ReservedMemoryBits
    THEN [n |-> Numerals[text], err |-> "nil"]
    ELSE [n |-> 0, err |-> "invalid"]

PortsWarning(err, name) ==
  IF err \notin {"EOF", "nil"}
    THEN <<LogEntry("warn", "Invalid format for environment variable", name)>>
    ELSE <<>>

\* EnvironmentConfig, getenv the process environment ("" for an unset name).
EnvironmentConfig(getenv) ==
  LET dataDir == getenv["ECS_DATADIR"]
      checkpoint == IF dataDir # <<>>
                      THEN ParseBool(getenv["ECS_CHECKPOINT"], TRUE)
                      ELSE ParseBool(getenv["ECS_CHECKPOINT"], FALSE)
      tcp == DecodePorts(getenv["ECS_RESERVED_PORTS"])
      udp == DecodePorts(getenv["ECS_RESERVED_PORTS_UDP"])
      reservedMemoryEnv == getenv["ECS_RESERVED_MEMORY"]
      mem == ParseUint(reservedMemoryEnv)
      reservedMemory == IF reservedMemoryEnv = <<>> THEN 0
                        ELSE IF mem.err # "nil" THEN 0
                        ELSE mem.n % (2 ^ ReservedMemoryBits)
  IN
  [cfg |-> ConfigLit(
            [Cluster |-> getenv["ECS_CLUSTER"],
             APIEndpoint |-> getenv["ECS_BACKEND_HOST"],
             AWSRegion |-> getenv["AWS_DEFAULT_REGION"],
             DockerEndpoint |-> getenv["DOCKER_HOST"],
             ReservedPorts |-> tcp.ports,
             ReservedPortsUDP |-> udp.ports,
             DataDir |-> dataDir,
             Checkpoint |-> checkpoint,
             EngineAuthType |-> getenv["ECS_ENGINE_AUTH_TYPE"],
             EngineAuthData |-> getenv["ECS_ENGINE_AUTH_DATA"],
             UpdatesEnabled |-> ParseBool(getenv["ECS_UPDATES_ENABLED"], FALSE),
             UpdateDownloadDir |-> getenv["ECS_UPDATE_DOWNLOAD_DIR"],
             DisableMetrics |-> ParseBool(getenv["ECS_DISABLE_METRICS"], FALSE),
             DockerGraphPath |-> getenv["ECS_DOCKER_GRAPHPATH"],
             ReservedMemory |-> reservedMemory,
             EngineLogDriver |-> getenv["DOCKER_LOG_DRIVER"],
             EngineLogOpts |-> getenv["DOCKER_LOG_OPTS"]]),
   log |-> PortsWarning(tcp.err, "ECS_RESERVED_PORTS")
           \o PortsWarning(udp.err, "ECS_RESERVED_PORTS_UDP")
           \o (IF reservedMemoryEnv # <<>> /\ mem.err # "nil"
                 THEN <<LogEntry("warn", "Invalid format for environment variable",
                                 "ECS_RESERVED_MEMORY")>>
                 ELSE <<>>)]

\* json.Unmarshal(data, &config): a text that is not JSON leaves config as it
\* is; otherwise every key whose value fits its field is stored, a key whose
\* value does not fit is skipped, and the error reports the first such key.
Unmarshal(json, cfg) ==
  IF ~json.syntax THEN [cfg |-> cfg, err |-> "syntax"]
  ELSE [cfg |-> [f \in FieldSet |->
                   IF json.doc[f].st = "ok" THEN json.doc[f].v ELSE cfg[f]],
        err |-> IF \E f \in FieldSet : json.doc[f].st = "bad"
                  THEN "type" ELSE "nil"]

\* FileConfig, file what the file system holds at the configured path.
FileConfig(file) ==
  IF ~file.open THEN [cfg |-> EmptyConfig, log |-> <<>>]
  ELSE IF ~file.read
    THEN [cfg |-> EmptyConfig,
          log |-> <<LogEntry("error", "Unable to read config file", "")>>]
  ELSE IF TrimSpace(file.data) = <<>> THEN [cfg |-> EmptyConfig, log |-> <<>>]
  ELSE LET u == Unmarshal(file.json, EmptyConfig)
           config == u.cfg
       IN
       [cfg |-> IF ZeroOrNil(Kind("Cluster"), config["Cluster"])
                   /\ ~ZeroOrNil(Kind("ClusterArn"), config["ClusterArn"])
                  THEN [config EXCEPT !["Cluster"] = config["ClusterArn"]]
                  ELSE config,
        log |-> IF u.err # "nil"
                  THEN <<LogEntry("error", "Error reading config json data", "")>>
                  ELSE <<>>]

\* EC2MetadataConfig, imds the answer of the instance metadata service.
EC2MetadataConfig(imds) ==
  IF imds.err
    THEN [cfg |-> EmptyConfig,
          log |-> <<LogEntry("crit",
                     "Unable to communicate with EC2 Metadata service to infer region",
                     "")>>]
    ELSE [cfg |-> ConfigLit([AWSRegion |-> imds.region]), log |-> <<>>]

\* ------------------------------------------------------------ inputs
\* The environment variable EnvironmentConfig reads for a field; it reads
\* none for ClusterArn.
EnvVar ==
  [Cluster |-> "ECS_CLUSTER", APIEndpoint |-> "ECS_BACKEND_HOST",
   AWSRegion |-> "AWS_DEFAULT_REGION", DockerEndpoint |-> "DOCKER_HOST",
   EngineAuthType |-> "ECS_ENGINE_AUTH_TYPE",
   EngineAuthData |-> "ECS_ENGINE_AUTH_DATA",
   EngineLogDriver |-> "DOCKER_LOG_DRIVER", EngineLogOpts |-> "DOCKER_LOG_OPTS",
   DataDir |-> "ECS_DATADIR", Checkpoint |-> "ECS_CHECKPOINT",
   ReservedPorts |-> "ECS_RESERVED_PORTS",
   ReservedPortsUDP |-> "ECS_RESERVED_PORTS_UDP",
   UpdateDownloadDir |-> "ECS_UPDATE_DOWNLOAD_DIR",
   UpdatesEnabled |-> "ECS_UPDATES_ENABLED",
   DisableMetrics |-> "ECS_DISABLE_METRICS",
   DockerGraphPath |-> "ECS_DOCKER_GRAPHPATH",
   ReservedMemory |-> "ECS_RESERVED_MEMORY"]

EnvFields == DOMAIN EnvVar

EnvNames == { EnvVar[f] : f \in EnvFields }

\* A run of k whitespace characters.
Pad(k) == [i \in 1..k |-> " "]

\* The texts tried for a string input: a word, whitespace only, and words with
\* whitespace around them and between them.
StrVals(word) ==
  {<<word>>}
    \cup { Pad(k) : k \in 1..MaxPad }
    \cup { Pad(k) \o <<word, " ", word>> \o Pad(k) : k \in 1..MaxPad }

\* The texts tried for the environment variable of field f.
EnvTexts(f) ==
  CASE f \in {"ReservedPorts", "ReservedPortsUDP"} ->
         {<<>>, <<"[53]">>, <<"junk">>}
    [] Kind(f) = "bool" -> {<<>>, <<"true">>, <<"false">>, <<"junk">>}
    [] Kind(f) = "uint16" -> {<<>>, <<"65535">>, <<"70000">>, <<"junk">>}
    [] OTHER -> {<<>>} \cup StrVals("env")

\* The text every other variable holds in an environment that sets them all;
\* the strings carry a leading blank.
EnvSet(f) ==
  CASE f \in {"ReservedPorts", "ReservedPortsUDP"} -> <<"[22,2375]">>
    [] Kind(f) = "bool" -> <<"true">>
    [] Kind(f) = "uint16" -> <<"5">>
    [] OTHER -> <<" ", "env">>

\* A key of the JSON document: absent, of a type that does not fit its field,
\* or holding a value.
Absent(f) == [st |-> "absent", v |-> Zero(Kind(f))]
BadType(f) == [st |-> "bad", v |-> Zero(Kind(f))]
Holds(v) == [st |-> "ok", v |-> v]

\* The values tried for the key of field f in the file.
FileVals(f) ==
  CASE f \in {"ReservedPorts", "ReservedPortsUDP"} -> {<<8080>>, <<>>}
    [] Kind(f) = "bool" -> {TRUE, FALSE}
    [] Kind(f) = "uint16" -> {7, 0}
    [] OTHER -> StrVals("file")

\* The value every other key holds in a document that sets them all.
FileSet(f) ==
  CASE f \in {"ReservedPorts", "ReservedPortsUDP"} -> <<8080>>
    [] Kind(f) = "bool" -> TRUE
    [] Kind(f) = "uint16" -> 7
    [] OTHER -> <<"file">>

EmptyDoc == [f \in FieldSet |-> Absent(f)]

NoFile == [open |-> FALSE, read |-> FALSE, data |-> <<>>,
           json |-> [syntax |-> FALSE, doc |-> EmptyDoc]]

\* What the file system can hold at the path: no file, a file that cannot be
\* read, a blank file, a text that is not JSON, a JSON document.
Files(focus) ==
  {NoFile, [NoFile EXCEPT !.open = TRUE]}
    \cup { [NoFile EXCEPT !.open = TRUE, !.read = TRUE, !.data = Pad(k)]
           : k \in 0..MaxPad }
    \cup { [NoFile EXCEPT !.open = TRUE, !.read = TRUE, !.data = <<"{">>] }
    \cup { [open |-> TRUE, read |-> TRUE, data |-> <<"{...}">>,
            json |-> [syntax |-> TRUE,
                      doc |-> [f \in FieldSet |->
                                 IF f = focus THEN e
                                 ELSE IF all THEN Holds(FileSet(f)) ELSE Absent(f)]]]
                      : e \in {Absent(focus), BadType(focus)} \cup { Holds(v) : v \in FileVals(focus) },
             all \in BOOLEAN }

\* The metadata service before it is asked, and the answers it can give:
\* an error, or an identity document with a region.
NotAsked == [asked |-> FALSE, err |-> FALSE, region |-> <<>>]

Metadata ==
  { [asked |-> TRUE, err |-> TRUE, region |-> <<>>],
    [asked |-> TRUE, err |-> FALSE, region |-> <<>>],
    [asked |-> TRUE, err |-> FALSE, region |-> <<"us-west-2">>] }

\* The tags of a schema in which the region is required and trimmed, two more
\* strings are trimmed and the legacy cluster key is deprecated.
BaseTags ==
  [f \in FieldSet |->
     CASE f = "AWSRegion" -> [missing |-> "fatal", trim |-> "true", deprecated |-> ""]
       [] f \in {"Cluster", "EngineAuthType"} -> [NoTags EXCEPT !.trim = "true"]
       [] f = "ClusterArn" ->
            [NoTags EXCEPT !.deprecated = "Please use Cluster instead"]
       [] OTHER -> NoTags]

\* The tags tried on one field of the schema.
FieldTags ==
  { NoTags,
    [NoTags EXCEPT !.missing = "fatal"],
    [NoTags EXCEPT !.missing = "fatal", !.trim = "true"],
    [NoTags EXCEPT !.missing = "warn", !.deprecated = "deprecated"],
    [NoTags EXCEPT !.missing = "other", !.trim = "true"] }

\* ------------------------------------------------------------ state
VARIABLES
  tags,      \* the struct tags of Config
  environ,   \* the process environment
  file,      \* the file at the configured path
  imds,      \* the answer of the metadata service, once asked
  pc,        \* where NewConfig stands
  config,    \* *config, NewConfig's first result
  err,       \* err, NewConfig's second result
  calls,     \* the calls NewConfig has made, in order
  log,       \* what has been logged
  hist       \* records kept from earlier steps, for the properties

vars == <<tags, environ, file, imds, pc, config, err, calls, log, hist>>

inputs == <<tags, environ, file>>

\* hist: the receiver and the parameter of the last Merge as the call found
\* them (lhsIn, rhsIn), the parameter as the call left it (rhsOut), the record
\* TrimWhitespace was called on (trimIn), the region after the file was merged
\* (regionAfterFile) and the return statement taken (returned).
NoHist ==
  [lhsIn |-> EmptyConfig, rhsIn |-> EmptyConfig, rhsOut |-> EmptyConfig,
   trimIn |-> EmptyConfig, regionAfterFile |-> <<>>, returned |-> "none"]

Init ==
  /\ \E focus \in FieldSet, ft \in FieldTags, all \in BOOLEAN :
       /\ tags = [BaseTags EXCEPT ![focus] = ft]
       /\ \E text \in (IF focus \in EnvFields THEN EnvTexts(focus) ELSE {<<>>}) :
            environ = [n \in EnvNames |->
                         IF focus \in EnvFields /\ n = EnvVar[focus] THEN text
                         ELSE IF all
                           THEN EnvSet(CHOOSE f \in EnvFields : EnvVar[f] = n)
                           ELSE <<>>]
       /\ file \in Files(focus)
  /\ imds = NotAsked
  /\ pc = "start"
  /\ config = EmptyConfig
  /\ err = NilErr
  /\ calls = <<>>
  /\ log = <<>>
  /\ hist = NoHist

\* ------------------------------------------------------------ NewConfig
\* ctmp := EnvironmentConfig(); config = &ctmp
CallEnvironmentConfig ==
  /\ pc = "start"
  /\ LET r == EnvironmentConfig(environ) IN
       /\ config' = r.cfg
       /\ log' = log \o r.log
  /\ calls' = Append(calls, "EnvironmentConfig")
  /\ pc' = "complete"
  /\ UNCHANGED <<inputs, imds, err, hist>>

\* if config.Complete() { return config, nil }
TestComplete ==
  /\ pc = "complete"
  /\ calls' = Append(calls, "Complete")
  /\ IF Complete(config)
       THEN /\ pc' = "trim"
            /\ hist' = [hist EXCEPT !.returned = "complete"]
       ELSE /\ pc' = "file"
            /\ hist' = hist
  /\ err' = NilErr
  /\ UNCHANGED <<inputs, imds, config, log>>

\* The file merged with the accumulator on the right: the file wins.
MergeFileOverEnvironment ==
  /\ pc = "file"
  /\ LET r == FileConfig(file)
         m == Merge(r.cfg, config)
     IN
       /\ config' = m.lhs
       /\ log' = log \o r.log
       /\ hist' = [hist EXCEPT !.lhsIn = r.cfg, !.rhsIn = config,
                               !.rhsOut = m.rhs,
                               !.regionAfterFile = m.lhs["AWSRegion"]]
  /\ calls' = calls \o <<"FileConfig", "Merge">>
  /\ pc' = "region"
  /\ UNCHANGED <<inputs, imds, err>>

\* config.Merge(FileConfig())
MergeFileConfig ==
  /\ pc = "file"
  /\ LET r == FileConfig(file)
         m == Merge(config, r.cfg)
     IN
       /\ config' = m.lhs
       /\ log' = log \o r.log
       /\ hist' = [hist EXCEPT !.lhsIn = config, !.rhsIn = r.cfg,
                               !.rhsOut = m.rhs,
                               !.regionAfterFile = m.lhs["AWSRegion"]]
  /\ calls' = calls \o <<"FileConfig", "Merge">>
  /\ pc' = "region"
  /\ UNCHANGED <<inputs, imds, err>>

\* The metadata service asked whether or not the region is set.
MetadataRegardlessOfRegion ==
  /\ pc = "region"
  /\ imds' \in Metadata
  /\ LET r == EC2MetadataConfig(imds')
         m == Merge(config, r.cfg)
     IN
       /\ config' = m.lhs
       /\ log' = log \o r.log
       /\ hist' = [hist EXCEPT !.lhsIn = config, !.rhsIn = r.cfg,
                               !.rhsOut = m.rhs, !.returned = "end"]
  /\ calls' = calls \o <<"EC2MetadataConfig", "Merge">>
  /\ pc' = "trim"
  /\ UNCHANGED <<inputs, err>>

\* if config.AWSRegion == "" { config.Merge(EC2MetadataConfig()) }
\* return config, err
MergeEC2MetadataConfig ==
  /\ pc = "region"
  /\ config["AWSRegion"] = <<>>
  /\ imds' \in Metadata
  /\ LET r == EC2MetadataConfig(imds')
         m == Merge(config, r.cfg)
     IN
       /\ config' = m.lhs
       /\ log' = log \o r.log
       /\ hist' = [hist EXCEPT !.lhsIn = config, !.rhsIn = r.cfg,
                               !.rhsOut = m.rhs, !.returned = "end"]
  /\ calls' = calls \o <<"EC2MetadataConfig", "Merge">>
  /\ pc' = "trim"
  /\ UNCHANGED <<inputs, err>>

\* the region is set: return config, err
ReturnWithRegion ==
  /\ pc = "region"
  /\ config["AWSRegion"] # <<>>
  /\ hist' = [hist EXCEPT !.returned = "end"]
  /\ pc' = "trim"
  /\ UNCHANGED <<inputs, imds, config, err, calls, log>>

\* deferred: config.TrimWhitespace()
DeferredTrimWhitespace ==
  /\ pc = "trim"
  /\ LET r == TrimWhitespace(config, tags) IN
       /\ config' = r.cfg
       /\ log' = log \o r.log
  /\ hist' = [hist EXCEPT !.trimIn = config]
  /\ calls' = Append(calls, "TrimWhitespace")
  /\ pc' = "check"
  /\ UNCHANGED <<inputs, imds, err>>

\* deferred: err = config.CheckMissingAndDepreciated()
DeferredCheckMissingAndDepreciated ==
  /\ pc = "check"
  /\ LET r == CheckMissingAndDepreciated(config, tags) IN
       /\ err' = r.err
       /\ log' = log \o r.log
  /\ calls' = Append(calls, "CheckMissingAndDepreciated")
  /\ pc' = "defaults"
  /\ UNCHANGED <<inputs, imds, config, hist>>

\* The deferred function ending after the check, the defaults never merged.
ReturnWithoutDefaults ==
  /\ pc = "defaults"
  /\ pc' = "done"
  /\ UNCHANGED <<inputs, imds, config, err, calls, log, hist>>

\* deferred: config.Merge(DefaultConfig()); NewConfig has returned
DeferredMergeDefaultConfig ==
  /\ pc = "defaults"
  /\ LET m == Merge(config, DefaultConfig) IN
       /\ config' = m.lhs
       /\ hist' = [hist EXCEPT !.lhsIn = config, !.rhsIn = DefaultConfig,
                               !.rhsOut = m.rhs]
  /\ calls' = calls \o <<"DefaultConfig", "Merge">>
  /\ pc' = "done"
  /\ UNCHANGED <<inputs, imds, err, log>>

NewConfig ==
  \/ CallEnvironmentConfig
  \/ TestComplete
  \/ MergeFileConfig
  \/ MergeEC2MetadataConfig
  \/ ReturnWithRegion
  \/ DeferredTrimWhitespace
  \/ DeferredCheckMissingAndDepreciated
  \/ DeferredMergeDefaultConfig

Next == NewConfig

Spec == Init /\ [][Next]_vars

\* ------------------------------------------------------------ vocabulary
IsEmpty(f, v) == ZeroOrNil(Kind(f), v)

Called(name) == \E i \in DOMAIN calls : calls[i] = name

Count(name) == Cardinality({ i \in DOMAIN calls : calls[i] = name })

Position(name) == CHOOSE i \in DOMAIN calls : calls[i] = name

\* The last call made was a Merge, and config is what it left.
AfterMerge == calls # <<>> /\ calls[Len(calls)] = "Merge"

AllWhitespace(s) == \A i \in DOMAIN s : s[i] \in Whitespace

\* t is s without a run of whitespace at its start and one at its end, and
\* neither starts nor ends with whitespace
Stripped(t, s) ==
  /\ t # <<>> => t[1] \notin Whitespace /\ t[Len(t)] \notin Whitespace
  /\ \E a \in 0..Len(s) :
       /\ a + Len(t) <= Len(s)
       /\ AllWhitespace(SubSeq(s, 1, a))
       /\ SubSeq(s, a + 1, a + Len(t)) = t
       /\ AllWhitespace(SubSeq(s, a + Len(t) + 1, Len(s)))

IsFatal(f) == TagGet(tags, f, "missing") = "fatal"

IsTrimmed(f) == TagGet(tags, f, "trim") # "" /\ Kind(f) = "string"

\* The fields an error message names: every second token after the prefix.
ErrFields(e) == [i \in 1..(Len(e) \div 2) |-> e[2 * i]]

Named(f) == \E i \in DOMAIN ErrFields(err) : ErrFields(err)[i] = f

\* The records the sources hold.
EnvRec == EnvironmentConfig(environ).cfg
FileRec == FileConfig(file).cfg
MetaRec == IF imds.asked THEN EC2MetadataConfig(imds).cfg ELSE EmptyConfig

\* ------------------------------------------------------------ C1
\* C1: Merge is left-biased and field-atomic: after A.Merge(B) every field of A
\* holds its old value if that was non-empty and B's value otherwise, and B is
\* as it was before the call.
C1_MergeLeftBiased ==
  AfterMerge =>
    /\ \A f \in FieldSet :
         config[f] = IF IsEmpty(f, hist.lhsIn[f]) THEN hist.rhsIn[f]
                     ELSE hist.lhsIn[f]
    /\ hist.rhsOut = hist.rhsIn

\* A Merge that kept a set field of A against a different set field of B and
\* filled an empty field of A from B.
C1_Witness ==
  /\ AfterMerge
  /\ \E f \in FieldSet :
       /\ ~IsEmpty(f, hist.lhsIn[f])
       /\ ~IsEmpty(f, hist.rhsIn[f])
       /\ hist.lhsIn[f] # hist.rhsIn[f]
  /\ \E g \in FieldSet : IsEmpty(g, hist.lhsIn[g]) /\ ~IsEmpty(g, hist.rhsIn[g])

\* ------------------------------------------------------------ C2
\* The value of field f in the first of the records that sets it, the zero
\* value when none does.
FirstSet(f, recs) ==
  IF \E i \in DOMAIN recs : ~IsEmpty(f, recs[i][f])
    THEN recs[CHOOSE i \in DOMAIN recs :
                /\ ~IsEmpty(f, recs[i][f])
                /\ \A j \in 1..(i - 1) : IsEmpty(f, recs[j][f])][f]
    ELSE Zero(Kind(f))

TrimIfTagged(f, v) == IF IsTrimmed(f) THEN TrimSpace(v) ELSE v

\* C2 as stated: the returned field holds the (trimmed) value of the first of
\* environment, file, metadata, defaults that sets it, and is empty only if
\* none of them sets it.
C2_AsStated ==
  pc = "done" =>
    \A f \in FieldSet :
      LET recs == <<EnvRec, FileRec, MetaRec, DefaultConfig>> IN
      /\ config[f] = TrimIfTagged(f, FirstSet(f, recs))
      /\ IsEmpty(f, config[f]) => \A i \in DOMAIN recs : IsEmpty(f, recs[i][f])

\* C2, amended: the returned field holds the trimmed value of the first of
\* environment, file, metadata that sets it when that trimmed value is not
\* empty, and the default otherwise.
C2_Precedence ==
  pc = "done" =>
    \A f \in FieldSet :
      LET v == TrimIfTagged(f, FirstSet(f, <<EnvRec, FileRec, MetaRec>>)) IN
      config[f] = IF IsEmpty(f, v) THEN DefaultConfig[f] ELSE v

\* A finished run in which the environment and the file both set a field to
\* different values, and one in which the environment holds only whitespace
\* in a trimmed field that the file sets.
C2_Witness ==
  /\ pc = "done"
  /\ \E f \in FieldSet :
       /\ ~IsEmpty(f, EnvRec[f])
       /\ ~IsEmpty(f, FileRec[f])
       /\ IsTrimmed(f)
       /\ AllWhitespace(EnvRec[f])

\* ------------------------------------------------------------ C4
\* C4 as stated: the error NewConfig returns is non-nil exactly when a
\* fatal-required field of the returned record, on which the defaults have
\* been merged, is empty, and it names no field that the returned record sets.
C4_AsStated ==
  pc = "done" =>
    /\ err # NilErr <=> \E f \in FieldSet : IsFatal(f) /\ IsEmpty(f, config[f])
    /\ \A f \in FieldSet : Named(f) => IsEmpty(f, config[f])

\* ------------------------------------------------------------ C5
\* The fields that are empty and tagged missing:"fatal", in declaration order.
FatalMissing(cfg) ==
  SelectSeq(Fields, LAMBDA f : IsFatal(f) /\ IsEmpty(f, cfg[f]))

\* C5: the error of CheckMissingAndDepreciated is nil when no field is empty
\* and fatal-required, and otherwise one message that names exactly the empty
\* fatal-required fields, each once, in declaration order, ", " between them.
C5_AggregatedError ==
  pc = "defaults" =>
    LET want == FatalMissing(config) IN
    /\ err = NilErr <=> want = <<>>
    /\ err # NilErr =>
         /\ err[1] = "Missing required fields: "
         /\ Len(err) = 2 * Len(want)
         /\ ErrFields(err) = want
         /\ \A i \in 2..Len(want) : err[2 * i - 1] = ", "
         /\ \A f \in FieldSet :
              Named(f) => IsEmpty(f, config[f]) /\ IsFatal(f)

\* A check that named two fields and passed over an empty field tagged
\* otherwise, an empty field without a missing tag and a set field.
C5_Witness ==
  /\ pc = "defaults"
  /\ Len(ErrFields(err)) >= 2
  /\ \E f \in FieldSet :
       IsEmpty(f, config[f]) /\ TagGet(tags, f, "missing") = ""
  /\ \E f \in FieldSet : ~IsEmpty(f, config[f])

\* ------------------------------------------------------------ C6
\* C6: EC2MetadataConfig is called at most once, and exactly when the
\* environment record is not complete and the region is empty once the file
\* is merged; a region in the environment or the file means no call; a call
\* that fails contributes an empty record and leaves the region empty.
C6_MetadataOnlyIfNeeded ==
  /\ Count("EC2MetadataConfig") <= 1
  /\ imds.asked <=> Called("EC2MetadataConfig")
  /\ pc \in {"trim", "check", "defaults", "done"} =>
       /\ Called("EC2MetadataConfig") <=>
            (~Complete(EnvRec) /\ hist.regionAfterFile = <<>>)
       /\ (EnvRec["AWSRegion"] # <<>> \/ FileRec["AWSRegion"] # <<>>) =>
            ~Called("EC2MetadataConfig")
  /\ imds.asked /\ imds.err =>
       /\ config["AWSRegion"] = <<>>
       /\ pc = "trim" => hist.rhsIn = EmptyConfig

\* A finished run in which the metadata service was asked and failed.
C6_Witness ==
  /\ pc = "done"
  /\ Count("EC2MetadataConfig") = 1
  /\ imds.err
  /\ hist.regionAfterFile = <<>>

\* ------------------------------------------------------------ C7
\* C7: TrimWhitespace runs before CheckMissingAndDepreciated; it strips every
\* trim-tagged string field and leaves every other field as it was; a
\* trim-tagged, fatal-required string field holding only whitespace is
\* reported as missing.
C7_TrimBeforeCheck ==
  /\ pc = "check" =>
       \A f \in FieldSet :
         IF IsTrimmed(f) THEN Stripped(config[f], hist.trimIn[f])
         ELSE config[f] = hist.trimIn[f]
  /\ pc \in {"defaults", "done"} =>
       /\ Position("TrimWhitespace") < Position("CheckMissingAndDepreciated")
       /\ \A f \in FieldSet :
            IsTrimmed(f) /\ IsFatal(f) /\ AllWhitespace(hist.trimIn[f])
              => Named(f)

\* A run whose check reported a trimmed field that held whitespace, after a
\* trim that left whitespace in place in a field without the tag.
C7_Witness ==
  /\ pc = "defaults"
  /\ \E f \in FieldSet :
       /\ IsTrimmed(f) /\ IsFatal(f) /\ Named(f)
       /\ hist.trimIn[f] # <<>>
  /\ \E g \in FieldSet :
       /\ Kind(g) = "string" /\ ~IsTrimmed(g)
       /\ config[g] # <<>> /\ config[g][1] \in Whitespace

\* ------------------------------------------------------------ C8
\* The file is there, can be read, is not blank, and is not a JSON document
\* that fits Config.
Malformed(fl) ==
  /\ fl.open /\ fl.read /\ TrimSpace(fl.data) # <<>>
  /\ ~fl.json.syntax \/ \E f \in FieldSet : fl.json.doc[f].st = "bad"

\* C8 as stated: FileConfig returns the empty record when the file is
\* missing, unreadable, blank or malformed.
C8_AsStated ==
  (/\ pc = "region"
   /\ ~file.open \/ ~file.read \/ TrimSpace(file.data) = <<>> \/ Malformed(file))
    => hist.rhsIn = EmptyConfig

\* ------------------------------------------------------------ C9
\* C9: a source that fails does not end NewConfig; the trim pass, the check
\* and the default merge run at most once, and once each, in that order and
\* last, in a call that has returned, so that every field with a non-empty
\* default is non-empty.
C9_AllStepsOnce ==
  /\ Count("TrimWhitespace") <= 1
  /\ Count("CheckMissingAndDepreciated") <= 1
  /\ Count("DefaultConfig") <= 1
  /\ pc \in {"file", "region"} => hist.returned = "none"
  /\ pc = "done" =>
       /\ hist.returned # "none"
       /\ Count("TrimWhitespace") = 1
       /\ Count("CheckMissingAndDepreciated") = 1
       /\ Count("DefaultConfig") = 1
       /\ calls[Len(calls)] = "Merge" /\ calls[Len(calls) - 1] = "DefaultConfig"
       /\ \A f \in FieldSet :
            ~IsEmpty(f, DefaultConfig[f]) => ~IsEmpty(f, config[f])

\* A finished run in which the file could not be parsed and the metadata
\* service failed, that returns an error and whose defaults filled a field.
C9_Witness ==
  /\ pc = "done"
  /\ Malformed(file)
  /\ imds.asked /\ imds.err
  /\ err # NilErr
  /\ \E f \in FieldSet : IsEmpty(f, hist.lhsIn[f]) /\ ~IsEmpty(f, config[f])

\* ------------------------------------------------------------ C3, C10
\* EnvironmentConfig never sets ClusterArn, so its record is never complete
\* and NewConfig never takes the return inside the test of config.Complete().
EnvironmentNeverComplete ==
  /\ pc # "start" => ~Complete(EnvRec) /\ IsEmpty("ClusterArn", EnvRec["ClusterArn"])
  /\ hist.returned # "complete"

\* An environment record in which ClusterArn is the only empty field.
AllButClusterArn ==
  /\ pc = "complete"
  /\ \A f \in FieldSet \ {"ClusterArn"} : ~IsEmpty(f, config[f])

====
